---- MODULE Spec2Model ----
(***************************************************************************)
(* Model of valijson's RapidJson adapter                                   *)
(* (include/valijson/adapters/rapidjson_adapter.hpp).                      *)
(*                                                                         *)
(* A rapidjson::Value is a record; every heap-backed part of it (string    *)
(* buffer, element storage, member storage) carries the allocator it was   *)
(* allocated from.  64-bit words are four 16-bit limbs, most significant   *)
(* first, so that the 32/64-bit signed/unsigned encodings keep their width.*)
(***************************************************************************)
EXTENDS Integers, Sequences, FiniteSets, TLC

\* ------------------------------------------------------------------ bounds
\* longest array / largest member count of a generated container
MaxLen == 2
\* number of RapidJsonFrozenValue objects one run may create
MaxFrozen == 2
\* number of times the caller changes the Document in place
MaxChanges == 1
\* nesting depth of the generated containers
MaxDepth == 2
\* threads that default-construct views and values concurrently
MaxThreads == 2

\* ------------------------------------------------------- machine integers
\* A 32-bit word is <<hi, lo>>, a 64-bit word <<w3, w2, w1, w0>>, limbs in
\* 0..65535.  A mathematical integer in -2^63 .. 2^64-1 is the pair of its
\* sign and its 64-bit two's complement pattern.
SignBit(limb) == limb >= 32768

\* int -> int64_t (sign extension)
SignExtend(w32) ==
    IF SignBit(w32[1]) THEN <<65535, 65535, w32[1], w32[2]>>
                       ELSE <<0, 0, w32[1], w32[2]>>

\* unsigned -> int64_t / uint64_t (zero extension)
ZeroExtend(w32) == <<0, 0, w32[1], w32[2]>>

\* the low 32 bits of a 64-bit word
Low32(w64) == <<w64[3], w64[4]>>

\* the number a signed 64-bit word stands for
Signed64(w64) == [neg |-> SignBit(w64[1]), bits |-> w64]

\* the number an unsigned 64-bit word stands for
Unsigned64(w64) == [neg |-> FALSE, bits |-> w64]

\* n fits int64_t: -2^63 <= n <= 2^63-1
InInt64Range(n) == n.neg \/ ~SignBit(n.bits[1])

\* ------------------------------------------------ rapidjson::Value: numbers
\* rapidjson keeps, beside the 64-bit payload, one flag per representation
\* the number fits; every constructor and setter derives them from the value.
\* Value(int) / SetInt
SetInt(i) ==
    [type  |-> "number",
     flags |-> {"Int", "Int64"} \cup (IF SignBit(i[1]) THEN {} ELSE {"Uint", "Uint64"}),
     bits  |-> SignExtend(i)]

\* Value(unsigned) / SetUint
SetUint(u) ==
    [type  |-> "number",
     flags |-> {"Uint", "Int64", "Uint64"} \cup (IF SignBit(u[1]) THEN {} ELSE {"Int"}),
     bits  |-> ZeroExtend(u)]

\* Value(int64_t) / SetInt64
SetInt64(i64) ==
    [type  |-> "number",
     flags |-> {"Int64"}
               \cup (IF ~SignBit(i64[1]) THEN {"Uint64"} ELSE {})
               \cup (IF i64[1] = 0 /\ i64[2] = 0 THEN {"Uint"} ELSE {})
               \cup (IF i64[1] = 0 /\ i64[2] = 0 /\ ~SignBit(i64[3]) THEN {"Int"} ELSE {})
               \cup (IF i64[1] = 65535 /\ i64[2] = 65535 /\ SignBit(i64[3]) THEN {"Int"} ELSE {}),
     bits  |-> i64]

\* Value(uint64_t) / SetUint64
SetUint64(u64) ==
    [type  |-> "number",
     flags |-> {"Uint64"}
               \cup (IF ~SignBit(u64[1]) THEN {"Int64"} ELSE {})
               \cup (IF u64[1] = 0 /\ u64[2] = 0 THEN {"Uint"} ELSE {})
               \cup (IF u64[1] = 0 /\ u64[2] = 0 /\ ~SignBit(u64[3]) THEN {"Int"} ELSE {}),
     bits  |-> u64]

\* Value(double) / SetDouble; a double is kept as the count of its halves
SetDouble(d) == [type |-> "number", flags |-> {"Double"}, d |-> d]

IsNumber(v) == v.type = "number"
IsInt(v)    == IsNumber(v) /\ "Int" \in v.flags
IsUint(v)   == IsNumber(v) /\ "Uint" \in v.flags
IsInt64(v)  == IsNumber(v) /\ "Int64" \in v.flags
IsUint64(v) == IsNumber(v) /\ "Uint64" \in v.flags
IsDouble(v) == IsNumber(v) /\ "Double" \in v.flags

GetInt(v)    == Low32(v.bits)
GetUint(v)   == Low32(v.bits)
GetInt64(v)  == v.bits
GetUint64(v) == v.bits
GetDouble(v) == v.d

\* the integer a number node stores: unsigned when it fits uint64_t, else
\* the (negative) signed reading
StoredNumber(v) == IF IsUint64(v) THEN Unsigned64(v.bits) ELSE Signed64(v.bits)

\* --------------------------------------------- rapidjson::Value: the rest
SetNull == [type |-> "null"]
SetBool(b) == [type |-> IF b THEN "true" ELSE "false"]

\* SetString(s, length, allocator): the characters are copied into allocator
SetString(s, allocator) == [type |-> "string", str |-> s, alloc |-> allocator]

\* SetArray() followed by PushBack(e, allocator) for each e of elems
MakeArray(elems, allocator) == [type |-> "array", elems |-> elems, alloc |-> allocator]

\* SetObject() followed by AddMember(name, value, allocator) for each member
MakeObject(members, allocator) == [type |-> "object", members |-> members, alloc |-> allocator]

IsNull(v)   == v.type = "null"
IsBool(v)   == v.type \in {"true", "false"}
GetBool(v)  == v.type = "true"
IsString(v) == v.type = "string"
IsArray(v)  == v.type = "array"
IsObject(v) == v.type = "object"
GetType(v)  == v.type

\* ----------------------------------------------------------------- strings
\* A string is a sequence of characters with an explicit length; NUL is an
\* ordinary character of a std::string and of a rapidjson string.
NUL == "NUL"

RECURSIVE c_str(_)
\* what a reader of the const char * of s sees: the characters before the
\* first NUL
c_str(s) ==
    IF s = <<>> \/ Head(s) = NUL THEN <<>> ELSE <<Head(s)>> \o c_str(Tail(s))

\* ------------------------------------------------ RapidJsonFrozenValue::copy
\* the kStringType case keeping the source's buffer instead of copying it
copyStringByReference(source, allocator) == source

\* case rapidjson::kStringType of copy
copyString(source, allocator) == SetString(source.str, allocator)

\* the kNumberType case copying an unsigned 64-bit number through the signed
\* getter and setter
copyNumberUint64AsInt64(source) ==
    IF IsInt(source) THEN SetInt(GetInt(source))
    ELSE IF IsUint(source) THEN SetUint(GetUint(source))
    ELSE IF IsInt64(source) \/ IsUint64(source) THEN SetInt64(GetInt64(source))
    ELSE SetDouble(GetDouble(source))

\* the kNumberType case reading an unsigned 32-bit number through GetInt
copyNumberUintAsInt(source) ==
    IF IsInt(source) \/ IsUint(source) THEN SetInt(GetInt(source))
    ELSE IF IsInt64(source) THEN SetInt64(GetInt64(source))
    ELSE IF IsUint64(source) THEN SetUint64(GetUint64(source))
    ELSE SetDouble(GetDouble(source))

\* case rapidjson::kNumberType of copy
copyNumber(source) ==
    IF IsInt(source) THEN SetInt(GetInt(source))
    ELSE IF IsUint(source) THEN SetUint(GetUint(source))
    ELSE IF IsInt64(source) THEN SetInt64(GetInt64(source))
    ELSE IF IsUint64(source) THEN SetUint64(GetUint64(source))
    ELSE SetDouble(GetDouble(source))

RECURSIVE copy(_, _)
\* copy(source, dest, allocator): ok is the returned bool, dest the value
\* written.  The caller's dest is a default-constructed (null) Value, which
\* is what it stays when nothing is written.  The results of the nested
\* calls are not looked at.
copy(source, allocator) ==
    CASE GetType(source) = "null"   -> [ok |-> TRUE, dest |-> SetNull]
      [] GetType(source) = "false"  -> [ok |-> TRUE, dest |-> SetBool(FALSE)]
      [] GetType(source) = "true"   -> [ok |-> TRUE, dest |-> SetBool(TRUE)]
      [] GetType(source) = "object" ->
            [ok   |-> TRUE,
             dest |-> MakeObject(
                        [i \in 1..Len(source.members) |->
                            [name  |-> SetString(source.members[i].name.str, allocator),
                             value |-> copy(source.members[i].value, allocator).dest]],
                        allocator)]
      [] GetType(source) = "array"  ->
            [ok   |-> TRUE,
             dest |-> MakeArray(
                        [i \in 1..Len(source.elems) |-> copy(source.elems[i], allocator).dest],
                        allocator)]
      [] GetType(source) = "string" -> [ok |-> TRUE, dest |-> copyString(source, allocator)]
      [] GetType(source) = "number" -> [ok |-> TRUE, dest |-> copyNumber(source)]
      [] OTHER -> [ok |-> FALSE, dest |-> SetNull]

\* the constructor written as a rapidjson assignment, which moves: the new
\* value takes over the source's storage and the source is left null
FrozenValueByMove(source, allocator) ==
    [threw |-> FALSE, value |-> source, source |-> SetNull]

\* RapidJsonFrozenValue(const rapidjson::Value &source): the new object's
\* value, whether the constructor threw, and the source node after the call
\* (a const reference: it is what it was)
RapidJsonFrozenValue(source, allocator) ==
    LET r == copy(source, allocator)
    IN  [threw |-> ~r.ok, value |-> r.dest, source |-> source]

\* RapidJsonFrozenValue(const char *str): SetString(str, allocator) measures
\* the string up to its first NUL and copies that
RapidJsonFrozenValueOfCString(str, allocator) ==
    [threw |-> FALSE, value |-> SetString(c_str(str), allocator)]

\* RapidJsonFrozenValue(const std::string &str): SetString(str.c_str(),
\* str.length(), allocator) copies the whole length
RapidJsonFrozenValueOfString(str, allocator) ==
    [threw |-> FALSE, value |-> SetString(str, allocator)]

\* RapidJsonValue::freeze
freeze(value, allocator) == RapidJsonFrozenValue(value, allocator)

\* RapidJsonFrozenValue::clone
clone(value, allocator) == RapidJsonFrozenValue(value, allocator)

\* --------------------------------------------------------- RapidJsonValue
hasStrictTypes == TRUE

\* isInteger answering for every number
isIntegerOfAnyNumber(value) == IsNumber(value)

isArray(value)   == IsArray(value)
isBool(value)    == IsBool(value)
isDouble(value)  == IsDouble(value)
isInteger(value) == IsInt(value) \/ IsInt64(value) \/ IsUint(value) \/ IsUint64(value)
isNull(value)    == IsNull(value)
isNumber(value)  == IsNumber(value)
isObject(value)  == IsObject(value)
isString(value)  == IsString(value)

\* getters: ok is the returned bool, result the caller's variable afterwards
getBoolClearing(value, result) ==
    IF IsBool(value) THEN [ok |-> TRUE, result |-> GetBool(value)]
                     ELSE [ok |-> FALSE, result |-> FALSE]

getBool(value, result) ==
    IF IsBool(value) THEN [ok |-> TRUE, result |-> GetBool(value)]
                     ELSE [ok |-> FALSE, result |-> result]

getDouble(value, result) ==
    IF IsDouble(value) THEN [ok |-> TRUE, result |-> GetDouble(value)]
                       ELSE [ok |-> FALSE, result |-> result]

\* the unsigned 32-bit branch converting through int
getIntegerViaInt(value, result) ==
    IF IsInt(value) THEN [ok |-> TRUE, result |-> SignExtend(GetInt(value))]
    ELSE IF IsInt64(value) THEN [ok |-> TRUE, result |-> SignExtend(Low32(GetInt64(value)))]
    ELSE IF IsUint(value) THEN [ok |-> TRUE, result |-> ZeroExtend(GetUint(value))]
    ELSE IF IsUint64(value) THEN [ok |-> TRUE, result |-> GetUint64(value)]
    ELSE [ok |-> FALSE, result |-> result]

getInteger(value, result) ==
    IF IsInt(value) THEN [ok |-> TRUE, result |-> SignExtend(GetInt(value))]
    ELSE IF IsInt64(value) THEN [ok |-> TRUE, result |-> GetInt64(value)]
    ELSE IF IsUint(value) THEN [ok |-> TRUE, result |-> ZeroExtend(GetUint(value))]
    ELSE IF IsUint64(value) THEN [ok |-> TRUE, result |-> GetUint64(value)]
    ELSE [ok |-> FALSE, result |-> result]

getString(value, result) ==
    IF IsString(value) THEN [ok |-> TRUE, result |-> value.str]
                       ELSE [ok |-> FALSE, result |-> result]

\* ------------------------------------------------------------ the program
VARIABLES
    doc,        \* root node of the caller's Document
    docGen,     \* how many times the caller has changed the Document
    docLive,    \* the Document has not been discarded
    notFound,   \* what this rapidjson's FindMember returns for a missing
                \* member: "null" (a null pointer) or "end" (MemberEnd())
    frozen,     \* the RapidJsonFrozenValue objects created so far
    ret,        \* the last adapter call: what was called, on what, its result
    statics,    \* the function-local static empty values: guard and storage
    threads     \* what each thread is doing inside a default constructor

vars == <<doc, docGen, docLive, notFound, frozen, ret, statics, threads>>

\* ------------------------------------------------------------- references
\* A reference to a rapidjson::Value names the object it is part of and the
\* path of element / member indices down to it.  Besides the Document there
\* are the three function-local static empty values.
DocRef(path) == [root |-> "doc", path |-> path]
\* RapidJsonArray::emptyArray
emptyArray == [root |-> "RapidJsonArray::emptyArray", path |-> <<>>]
\* RapidJsonObject::emptyObject
emptyObject == [root |-> "RapidJsonObject::emptyObject", path |-> <<>>]
\* RapidJsonValue::emptyObject
emptyObjectValue == [root |-> "RapidJsonValue::emptyObject", path |-> <<>>]
\* the three function-local statics
Singletons == {emptyArray.root, emptyObject.root, emptyObjectValue.root}
\* the temporary `empty` of RapidJsonObject::find
EmptyTemp == [root |-> "find::empty", path |-> <<>>]
\* no object at all
NullRef == [root |-> "null", path |-> <<>>]

\* allocators: the Document's (one per generation of its contents), the one
\* of each frozen value, and none for values that own no storage
DocAllocator(gen) == <<"doc", gen>>
FrozenAllocator(k) == <<"frozen", k>>
NoAllocator == <<"none", 0>>

\* the children of a node, in storage order
Children(v) ==
    IF IsArray(v) THEN v.elems
    ELSE IF IsObject(v) THEN [i \in 1..Len(v.members) |-> v.members[i].value]
    ELSE <<>>

RECURSIVE NodeAt(_, _)
NodeAt(v, path) ==
    IF path = <<>> THEN v ELSE NodeAt(Children(v)[Head(path)], Tail(path))

RECURSIVE PathsOf(_)
\* the paths of all nodes of the tree v
PathsOf(v) ==
    {<<>>} \cup UNION {{<<i>> \o p : p \in PathsOf(Children(v)[i])} : i \in 1..Len(Children(v))}

\* the value a reference refers to
Deref(ref) ==
    CASE ref.root = "doc" -> NodeAt(doc, ref.path)
      [] ref.root \in Singletons -> statics[ref.root].value
      [] OTHER -> MakeObject(<<>>, NoAllocator)

\* the rapidjson values a caller can refer to: the nodes of the live Document
Refs == IF docLive THEN {DocRef(p) : p \in PathsOf(doc)} ELSE {}

\* what a RapidJsonValue can wrap: one of those, or, default-constructed, its
\* static empty object
ValueRefs == Refs \cup {emptyObjectValue}

\* rapidjson iterators are pointers into the container's storage: the
\* storage's owner and an offset.  A container without elements has no
\* storage, and its pointers are null.
Pointer(base, idx) == [base |-> base, idx |-> idx]

\* rapidjson::Value::Size
Size(ref) == Len(Deref(ref).elems)
\* rapidjson::Value::Begin / End
Begin(ref) == Pointer(IF Size(ref) = 0 THEN NullRef ELSE ref, 0)
End(ref) == Pointer(IF Size(ref) = 0 THEN NullRef ELSE ref, Size(ref))

\* rapidjson::Value::MemberBegin / MemberEnd
MemberCount(ref) == Len(Deref(ref).members)
MemberBegin(ref) == Pointer(IF MemberCount(ref) = 0 THEN NullRef ELSE ref, 0)
MemberEnd(ref) == Pointer(IF MemberCount(ref) = 0 THEN NullRef ELSE ref, MemberCount(ref))

\* rapidjson::Value::FindMember(const Ch *name): the first member whose name
\* has the length and the characters of the C string
FindMember(ref, name) ==
    LET members == Deref(ref).members
        hits == {i \in 1..Len(members) : members[i].name.str = name}
    IN  IF hits # {}
        THEN Pointer(ref, (CHOOSE i \in hits : \A j \in hits : i <= j) - 1)
        ELSE IF notFound = "null" THEN Pointer(NullRef, 0) ELSE MemberEnd(ref)

\* --------------------------------------------------------- RapidJsonArray
\* RapidJsonArray(): the view and whether the constructor threw
RapidJsonArrayDefault == [threw |-> FALSE, value |-> emptyArray]

\* the constructor checking for the wrong kind
RapidJsonArrayOfAnyContainer(value) ==
    IF ~(IsArray(Deref(value)) \/ IsObject(Deref(value)))
    THEN [threw |-> TRUE, value |-> NullRef]
    ELSE [threw |-> FALSE, value |-> value]

\* RapidJsonArray(const rapidjson::Value &value)
RapidJsonArray(value) ==
    IF ~IsArray(Deref(value)) THEN [threw |-> TRUE, value |-> NullRef]
                              ELSE [threw |-> FALSE, value |-> value]

RapidJsonArray_begin(view) == Begin(view.value)
RapidJsonArray_end(view) == End(view.value)
RapidJsonArray_size(view) == Size(view.value)

\* -------------------------------------------------------- RapidJsonObject
\* RapidJsonObject()
RapidJsonObjectDefault == [threw |-> FALSE, value |-> emptyObject]

\* RapidJsonObject(const rapidjson::Value &value)
RapidJsonObject(value) ==
    IF ~IsObject(Deref(value)) THEN [threw |-> TRUE, value |-> NullRef]
                               ELSE [threw |-> FALSE, value |-> value]

RapidJsonObject_begin(view) == MemberBegin(view.value)

\* end() one member short
RapidJsonObject_endShort(view) ==
    Pointer(MemberEnd(view.value).base, MemberEnd(view.value).idx - 1)

RapidJsonObject_end(view) == MemberEnd(view.value)

\* value.MemberEnd() - value.MemberBegin()
RapidJsonObject_size(view) == MemberEnd(view.value).idx - MemberBegin(view.value).idx

\* RapidJsonObject::find
RapidJsonObject_find(view, propertyName) ==
    LET foundItr == FindMember(view.value, c_str(propertyName))
        maybeEnd == FindMember(EmptyTemp, c_str(<<>>))
    IN  IF maybeEnd # Pointer(MemberBegin(EmptyTemp).base, MemberBegin(EmptyTemp).idx + 1)
        THEN IF foundItr = maybeEnd THEN MemberEnd(view.value) ELSE foundItr
        ELSE foundItr

\* -------------------- RapidJsonArrayValueIterator / ObjectMemberIterator
\* equal: the two rapidjson iterators compared
equal(itr, other) == itr = other
\* increment / decrement: itr++ / itr--
increment(itr) == Pointer(itr.base, itr.idx + 1)
decrement(itr) == Pointer(itr.base, itr.idx - 1)
\* RapidJsonArrayValueIterator::advance: itr += n
advance(itr, n) == Pointer(itr.base, itr.idx + n)

\* the element or member a valid iterator points at, as a reference
Pointee(itr) == [root |-> itr.base.root, path |-> itr.base.path \o <<itr.idx + 1>>]

\* RapidJsonArrayValueIterator::dereference: an adapter for the element
ArrayValueIterator_dereference(itr) == Pointee(itr)

\* RapidJsonObjectMemberIterator::dereference: the member's name, with its
\* length, and an adapter for its value
ObjectMemberIterator_dereference(itr) ==
    [name  |-> Deref(itr.base).members[itr.idx + 1].name.str,
     value |-> Pointee(itr)]

\* ------------------------------ RapidJsonValue: structural extraction
\* a boost::optional of a view: whether the call threw, whether the
\* optional holds a view, and the view
NoView == [threw |-> FALSE, present |-> FALSE, view |-> [value |-> NullRef]]

\* getArrayOptional constructing the view without testing the kind first
getArrayOptionalUnchecked(value) ==
    LET r == RapidJsonArray(value)
    IN  [threw |-> r.threw, present |-> ~r.threw, view |-> [value |-> r.value]]

getArrayOptional(value) ==
    IF IsArray(Deref(value))
    THEN LET r == RapidJsonArray(value)
         IN  [threw |-> r.threw, present |-> ~r.threw, view |-> [value |-> r.value]]
    ELSE NoView

getArraySize(value, result) ==
    IF IsArray(Deref(value)) THEN [ok |-> TRUE, result |-> Size(value)]
                             ELSE [ok |-> FALSE, result |-> result]

getObjectOptional(value) ==
    IF IsObject(Deref(value))
    THEN LET r == RapidJsonObject(value)
         IN  [threw |-> r.threw, present |-> ~r.threw, view |-> [value |-> r.value]]
    ELSE NoView

getObjectSize(value, result) ==
    IF IsObject(Deref(value))
    THEN [ok |-> TRUE, result |-> MemberEnd(value).idx - MemberBegin(value).idx]
    ELSE [ok |-> FALSE, result |-> result]

\* ------------------------------------------- BasicAdapter::equalTo (4.3)
\* the number of halves a number is, when its magnitude is small (the only
\* integers a double of the model can equal); no value otherwise
Halves(v) ==
    IF IsDouble(v) THEN {GetDouble(v)}
    ELSE IF v.bits[1] = 0 /\ v.bits[2] = 0 /\ v.bits[3] = 0 /\ IsUint64(v)
    THEN {2 * v.bits[4]}
    ELSE IF v.bits[1] = 65535 /\ v.bits[2] = 65535 /\ v.bits[3] = 65535 /\ ~IsUint64(v)
    THEN {2 * (v.bits[4] - 65536)}
    ELSE {}

\* numbers equal iff numerically equal
NumericallyEqual(a, b) ==
    IF isInteger(a) /\ isInteger(b) THEN StoredNumber(a) = StoredNumber(b)
    ELSE Halves(a) \cap Halves(b) # {}

RECURSIVE equalTo(_, _, _)
\* recursive structural comparison of the adapter's value with another
equalTo(value, other, strict) ==
    CASE isNull(value)   -> isNull(other)
      [] isBool(value)   -> isBool(other) /\ GetBool(value) = GetBool(other)
      [] isString(value) -> isString(other) /\ value.str = other.str
      [] isNumber(value) ->
            /\ isNumber(other)
            /\ NumericallyEqual(value, other)
            /\ (strict /\ hasStrictTypes) => (isInteger(value) <=> isInteger(other))
      [] isArray(value)  ->
            /\ isArray(other)
            /\ Len(value.elems) = Len(other.elems)
            /\ \A i \in 1..Len(value.elems) : equalTo(value.elems[i], other.elems[i], strict)
      [] isObject(value) ->
            /\ isObject(other)
            /\ Len(value.members) = Len(other.members)
            /\ \A i \in 1..Len(value.members) :
                  \E j \in 1..Len(other.members) :
                     /\ value.members[i].name.str = other.members[j].name.str
                     /\ equalTo(value.members[i].value, other.members[j].value, strict)
      [] OTHER -> FALSE

\* RapidJsonFrozenValue::equalTo: RapidJsonAdapter(value).equalTo(other, strict)
RapidJsonFrozenValue_equalTo(value, other, strict) == equalTo(value, other, strict)

\* ------------------------------------------------------------- Documents
\* The values a parser or a caller can put into a Document, each built with
\* the constructor of its native encoding.
IntegerNodes ==
    {SetInt(<<0, 0>>), SetInt(<<0, 1>>), SetInt(<<65535, 65535>>),
     SetInt(<<32767, 65535>>), SetInt(<<32768, 0>>),
     SetUint(<<0, 1>>), SetUint(<<32768, 0>>), SetUint(<<65535, 65535>>),
     SetInt64(<<0, 0, 0, 1>>), SetInt64(<<0, 1, 0, 0>>),
     SetInt64(<<65535, 65535, 32767, 65535>>),
     SetInt64(<<32767, 65535, 65535, 65535>>), SetInt64(<<32768, 0, 0, 0>>),
     SetUint64(<<0, 0, 0, 1>>), SetUint64(<<32767, 65535, 65535, 65535>>),
     SetUint64(<<32768, 0, 0, 0>>), SetUint64(<<65535, 65535, 65535, 65535>>)}

\* 1.5, 4.0 and -0.5
DoubleNodes == {SetDouble(3), SetDouble(8), SetDouble(-1)}

Strings == {<<>>, <<"a">>, <<"b">>, <<"a", NUL, "b">>}

Leaves(allocator) ==
    {SetNull, SetBool(FALSE), SetBool(TRUE)}
    \cup IntegerNodes \cup DoubleNodes
    \cup {SetString(s, allocator) : s \in Strings}

\* the values put inside the generated containers
Elems(allocator) ==
    {SetInt(<<0, 1>>), SetUint64(<<65535, 65535, 65535, 65535>>), SetDouble(3),
     SetString(<<"a">>, allocator)}

\* all sequences over S of length at most n
RECURSIVE SeqsUpTo(_, _)
SeqsUpTo(S, n) ==
    IF n = 0 THEN {<<>>}
    ELSE LET shorter == SeqsUpTo(S, n - 1)
         IN  shorter \cup {Append(q, x) : q \in {r \in shorter : Len(r) = n - 1}, x \in S}

\* arrays of up to MaxLen elements
WideArrays(allocator) ==
    {MakeArray(q, allocator) : q \in SeqsUpTo(Elems(allocator), MaxLen)}

\* objects of up to MaxLen members; member names may repeat and may hold NUL
WideObjects(allocator) ==
    LET members == {[name |-> SetString(<<"a">>, allocator), value |-> SetInt(<<0, 1>>)],
                    [name |-> SetString(<<"a", NUL, "b">>, allocator),
                     value |-> SetString(<<"a">>, allocator)]}
    IN  {MakeObject(q, allocator) : q \in SeqsUpTo(members, MaxLen)}

\* containers nested up to depth d
RECURSIVE Nested(_, _)
Nested(d, allocator) ==
    IF d = 0 THEN Elems(allocator)
    ELSE LET inner == Nested(d - 1, allocator)
         IN  inner
             \cup {MakeArray(<<>>, allocator), MakeObject(<<>>, allocator)}
             \cup {MakeArray(<<x>>, allocator) : x \in inner}
             \cup {MakeObject(<<[name |-> SetString(<<"x">>, allocator), value |-> x]>>,
                              allocator) : x \in inner}

Documents(allocator) ==
    Leaves(allocator) \cup WideArrays(allocator) \cup WideObjects(allocator)
    \cup Nested(MaxDepth, allocator)

\* ------------------------------------------------------------ lifetimes
RECURSIVE AllocatorsOf(_)
\* the allocators that hold some part of the tree v
AllocatorsOf(v) ==
    CASE IsString(v) -> {v.alloc}
      [] IsArray(v)  -> {v.alloc} \cup UNION {AllocatorsOf(v.elems[i]) : i \in 1..Len(v.elems)}
      [] IsObject(v) ->
            {v.alloc} \cup UNION {AllocatorsOf(v.members[i].name)
                                    \cup AllocatorsOf(v.members[i].value) :
                                  i \in 1..Len(v.members)}
      [] OTHER -> {}

\* the allocators whose memory still holds what was put there
LiveAllocators ==
    {FrozenAllocator(k) : k \in {j \in 1..MaxFrozen : frozen[j].state = "live"}}
    \cup (IF docLive THEN {DocAllocator(docGen)} ELSE {})

\* reading v touches only memory that is still what it was
Readable(v) == AllocatorsOf(v) \subseteq LiveAllocators

\* a frozen value: its own value, the value it was frozen from as it was
\* then (what a live equivalent holds), and the slot it was cloned from
NoFrozen == [state |-> "none", value |-> SetNull, origin |-> SetNull, from |-> 0]

\* the first slot never used
FreeSlots == {k \in 1..MaxFrozen : frozen[k].state = "none"}
NextSlot == CHOOSE k \in FreeSlots : \A j \in FreeSlots : k <= j

Idle == [op |-> "none"]

\* ------------------------------------------------ function-local statics
\* static const rapidjson::Value array(rapidjson::kArrayType), and the two
\* like it.  The storage of a static is zero-initialised, which rapidjson
\* reads as a null; the declaration constructs the value the first time
\* control passes through it, under a guard: a thread that finds the
\* initialisation not complete acquires the guard, waiting while another
\* thread is initialising, runs the initialiser if it is the first, and
\* releases the guard as complete.
StaticInitialiser(name) ==
    IF name = emptyArray.root THEN MakeArray(<<>>, NoAllocator)
                              ELSE MakeObject(<<>>, NoAllocator)

Unconstructed == [guard |-> "none", inits |-> 0, value |-> SetNull]
Constructed(name) == [guard |-> "done", inits |-> 1, value |-> StaticInitialiser(name)]

\* the declaration's first test: the initialisation is complete
GuardDone(static) == static.guard = "done"

\* a guard that is tested but never held
GuardAcquireUnlocked(static) ==
    [wait |-> FALSE, first |-> static.guard # "done", static |-> static]

\* acquiring the guard: wait while another thread initialises; the first
\* thread to come holds the guard and is told to run the initialiser
GuardAcquire(static) ==
    CASE static.guard = "none" ->
            [wait |-> FALSE, first |-> TRUE, static |-> [static EXCEPT !.guard = "pending"]]
      [] static.guard = "pending" ->
            [wait |-> TRUE, first |-> FALSE, static |-> static]
      [] OTHER ->
            [wait |-> FALSE, first |-> FALSE, static |-> static]

\* the initialiser: the constructor of the value runs on the storage
RunInitialiser(name, static) ==
    [static EXCEPT !.value = StaticInitialiser(name), !.inits = @ + 1]

GuardRelease(static) == [static EXCEPT !.guard = "done"]

\* a thread outside the default constructors
NoCall == [pc |-> "idle", fn |-> "none", how |-> "none", value |-> NullRef,
           size |-> 0, empty |-> FALSE]

\* A Document and nothing yet called on it.  The statics have been
\* constructed by an earlier use; their first use is SpecSingleton's matter.
Init ==
    /\ doc \in Documents(DocAllocator(0))
    /\ docGen = 0
    /\ docLive = TRUE
    /\ notFound \in {"null", "end"}
    /\ frozen = [k \in 1..MaxFrozen |-> NoFrozen]
    /\ ret = Idle
    /\ statics = [name \in Singletons |-> Constructed(name)]
    /\ threads = [t \in 1..MaxThreads |-> NoCall]

\* ----------------------------------------- actions: scalar extraction
\* values the caller's output variable holds before the call
BoolOuts == {FALSE, TRUE}
DoubleOuts == {0, 5}
IntegerOuts == {<<0, 0, 0, 0>>, <<0, 0, 0, 7>>}
StringOuts == {<<>>, <<"b">>}

Getter(name, value, before, r) ==
    /\ ret' = [op |-> name, value |-> value, node |-> Deref(value),
               before |-> before, ok |-> r.ok, result |-> r.result, threw |-> FALSE]
    /\ UNCHANGED <<doc, docGen, docLive, notFound, frozen, statics, threads>>

CallGetBool ==
    \E value \in ValueRefs, result \in BoolOuts :
        Getter("getBool", value, result, getBool(Deref(value), result))

CallGetDouble ==
    \E value \in ValueRefs, result \in DoubleOuts :
        Getter("getDouble", value, result, getDouble(Deref(value), result))

CallGetInteger ==
    \E value \in ValueRefs, result \in IntegerOuts :
        Getter("getInteger", value, result, getInteger(Deref(value), result))

CallGetString ==
    \E value \in ValueRefs, result \in StringOuts :
        Getter("getString", value, result, getString(Deref(value), result))

\* -------------------------------------------- actions: kind predicates
KindPredicates == {"isNull", "isBool", "isNumber", "isString", "isArray", "isObject"}

\* the eight kind predicates and hasStrictTypes called on one value
CallKinds ==
    \E value \in ValueRefs :
        LET node == Deref(value)
        IN  /\ ret' = [op |-> "kinds", value |-> value, node |-> node,
                       is |-> [isNull |-> isNull(node), isBool |-> isBool(node),
                               isNumber |-> isNumber(node), isString |-> isString(node),
                               isArray |-> isArray(node), isObject |-> isObject(node),
                               isInteger |-> isInteger(node), isDouble |-> isDouble(node)],
                       strict |-> hasStrictTypes]
            /\ UNCHANGED <<doc, docGen, docLive, notFound, frozen, statics, threads>>

\* --------------------------------------- actions: structural extraction
SizeOuts == {0, 5}

Optional(name, value, r) ==
    /\ ret' = [op |-> name, value |-> value, node |-> Deref(value),
               threw |-> r.threw, present |-> r.present, optional |-> r.view]
    /\ UNCHANGED <<doc, docGen, docLive, notFound, frozen, statics, threads>>

CallGetArrayOptional ==
    \E value \in ValueRefs : Optional("getArrayOptional", value, getArrayOptional(value))

CallGetObjectOptional ==
    \E value \in ValueRefs : Optional("getObjectOptional", value, getObjectOptional(value))

CallGetArraySize ==
    \E value \in ValueRefs, result \in SizeOuts :
        Getter("getArraySize", value, result, getArraySize(value, result))

CallGetObjectSize ==
    \E value \in ValueRefs, result \in SizeOuts :
        Getter("getObjectSize", value, result, getObjectSize(value, result))

\* ------------------------------------------------ actions: views, iterators
NewView(name, kind, value, r) ==
    /\ ret' = [op |-> name, kind |-> kind, value |-> value, node |-> Deref(value),
               threw |-> r.threw, view |-> [value |-> r.value]]
    /\ UNCHANGED <<doc, docGen, docLive, notFound, frozen, statics, threads>>

ConstructArray ==
    \E value \in Refs : NewView("RapidJsonArray", "array", value, RapidJsonArray(value))

ConstructArrayDefault ==
    NewView("RapidJsonArray()", "array", emptyArray, RapidJsonArrayDefault)

ConstructObject ==
    \E value \in Refs : NewView("RapidJsonObject", "object", value, RapidJsonObject(value))

ConstructObjectDefault ==
    NewView("RapidJsonObject()", "object", emptyObject, RapidJsonObjectDefault)

\* the last call left the caller with a view
HasView == ret.op \in {"RapidJsonArray", "RapidJsonArray()", "RapidJsonObject",
                       "RapidJsonObject()"} /\ ~ret.threw

\* the last call left the caller with an iterator that was reached from
\* begin() in ret.steps increments
HasIterator == ret.op \in {"begin", "increment", "decrement", "advance", "dereference"}

ViewBegin(kind, view) ==
    IF kind = "array" THEN RapidJsonArray_begin(view) ELSE RapidJsonObject_begin(view)
ViewEnd(kind, view) ==
    IF kind = "array" THEN RapidJsonArray_end(view) ELSE RapidJsonObject_end(view)
ViewSize(kind, view) ==
    IF kind = "array" THEN RapidJsonArray_size(view) ELSE RapidJsonObject_size(view)

Iterator(name, kind, view, itr, steps, out) ==
    /\ ret' = [op |-> name, kind |-> kind, view |-> view, itr |-> itr,
               steps |-> steps, out |-> out]
    /\ UNCHANGED <<doc, docGen, docLive, notFound, frozen, statics, threads>>

CallBegin ==
    /\ HasView \/ HasIterator
    /\ Iterator("begin", ret.kind, ret.view, ViewBegin(ret.kind, ret.view), 0, NullRef)

\* ++itr, on an iterator that is not at end()
CallIncrement ==
    /\ HasIterator
    /\ ~equal(ret.itr, ViewEnd(ret.kind, ret.view))
    /\ Iterator("increment", ret.kind, ret.view, increment(ret.itr), ret.steps + 1, NullRef)

\* --itr, on an iterator that is not at begin()
CallDecrement ==
    /\ HasIterator
    /\ ~equal(ret.itr, ViewBegin(ret.kind, ret.view))
    /\ Iterator("decrement", ret.kind, ret.view, decrement(ret.itr), ret.steps - 1, NullRef)

\* itr += n on an array iterator, to a position from begin() to end()
CallAdvance ==
    /\ HasIterator
    /\ ret.kind = "array"
    /\ \E n \in -MaxLen..MaxLen :
        /\ ret.steps + n \in 0..RapidJsonArray_size(ret.view)
        /\ Iterator("advance", ret.kind, ret.view, advance(ret.itr, n), ret.steps + n, NullRef)

\* *itr, on an iterator that is not at end()
CallDereference ==
    /\ HasIterator
    /\ ~equal(ret.itr, ViewEnd(ret.kind, ret.view))
    /\ Iterator("dereference", ret.kind, ret.view, ret.itr, ret.steps,
                IF ret.kind = "array" THEN ArrayValueIterator_dereference(ret.itr)
                                      ELSE ObjectMemberIterator_dereference(ret.itr))

\* the names looked up
Queries == Strings

CallFind ==
    /\ HasView
    /\ ret.kind = "object"
    /\ \E propertyName \in Queries :
        /\ ret' = [op |-> "find", kind |-> "object", view |-> ret.view,
                   name |-> propertyName,
                   itr |-> RapidJsonObject_find(ret.view, propertyName)]
        /\ UNCHANGED <<doc, docGen, docLive, notFound, frozen, statics, threads>>

\* ---------------------------------------------- actions: frozen values
RECURSIVE Store(_, _, _)
\* the tree v with the node at path replaced by node
Store(v, path, node) ==
    IF path = <<>> THEN node
    ELSE IF IsArray(v)
    THEN [v EXCEPT !.elems[Head(path)] = Store(@, Tail(path), node)]
    ELSE [v EXCEPT !.members[Head(path)].value = Store(@, Tail(path), node)]

\* the Document after a call left `node` where `value` refers to
DocAfter(value, node) ==
    IF value.root = "doc" THEN Store(doc, value.path, node) ELSE doc

\* the strings frozen values are constructed from
FrozenStrings == {<<"a">>, <<"a", NUL, "b">>}

NewFrozenString(name, str, r, given) ==
    LET k == NextSlot
    IN  /\ frozen' = [frozen EXCEPT ![k] = [state |-> "live", value |-> r.value,
                                            origin |-> SetString(given, NoAllocator),
                                            from |-> 0]]
        /\ ret' = [op |-> name, str |-> str, threw |-> r.threw, slot |-> k]
        /\ UNCHANGED <<doc, docGen, docLive, notFound, statics, threads>>

\* new RapidJsonFrozenValue(const char *): what is given is a C string
ConstructFrozenCString ==
    /\ FreeSlots # {}
    /\ \E str \in FrozenStrings :
        NewFrozenString("RapidJsonFrozenValue(const char *)", str,
                        RapidJsonFrozenValueOfCString(str, FrozenAllocator(NextSlot)),
                        c_str(str))

\* new RapidJsonFrozenValue(const std::string &)
ConstructFrozenString ==
    /\ FreeSlots # {}
    /\ \E str \in FrozenStrings :
        NewFrozenString("RapidJsonFrozenValue(const std::string &)", str,
                        RapidJsonFrozenValueOfString(str, FrozenAllocator(NextSlot)),
                        str)

\* RapidJsonValue::freeze on a value of the Document or on a
\* default-constructed RapidJsonValue
CallFreeze ==
    /\ FreeSlots # {}
    /\ \E value \in ValueRefs :
        LET k == NextSlot
            r == freeze(Deref(value), FrozenAllocator(k))
        IN  /\ frozen' = IF r.threw THEN frozen
                         ELSE [frozen EXCEPT ![k] = [state |-> "live", value |-> r.value,
                                                     origin |-> Deref(value), from |-> 0]]
            /\ doc' = DocAfter(value, r.source)
            /\ ret' = [op |-> "freeze", value |-> value, node |-> Deref(value),
                       threw |-> r.threw, slot |-> IF r.threw THEN 0 ELSE k]
            /\ UNCHANGED <<docGen, docLive, notFound, statics, threads>>

\* RapidJsonFrozenValue::clone
CallClone ==
    /\ FreeSlots # {}
    /\ \E from \in 1..MaxFrozen :
        /\ frozen[from].state = "live"
        /\ LET k == NextSlot
               r == clone(frozen[from].value, FrozenAllocator(k))
           IN  /\ frozen' = IF r.threw THEN [frozen EXCEPT ![from].value = r.source]
                            ELSE [frozen EXCEPT ![from].value = r.source,
                                                ![k] = [state |-> "live", value |-> r.value,
                                                        origin |-> frozen[from].origin,
                                                        from |-> from]]
               /\ ret' = [op |-> "clone", from |-> from, threw |-> r.threw,
                          slot |-> IF r.threw THEN 0 ELSE k]
               /\ UNCHANGED <<doc, docGen, docLive, notFound, statics, threads>>

\* the holder of a frozen value deletes it: its allocator goes with it
DestroyFrozen ==
    \E k \in 1..MaxFrozen :
        /\ frozen[k].state = "live"
        /\ frozen' = [frozen EXCEPT ![k] = [state |-> "destroyed", value |-> SetNull,
                                            origin |-> SetNull, from |-> 0]]
        /\ ret' = Idle
        /\ UNCHANGED <<doc, docGen, docLive, notFound, statics, threads>>

\* RapidJsonFrozenValue::equalTo against a live value equivalent to the one
\* that was frozen.  A frozen value that reaches into memory that is gone
\* or rewritten can compare either way.
EqualToCall(strict) ==
    \E k \in 1..MaxFrozen :
        /\ frozen[k].state = "live"
        /\ \E result \in IF Readable(frozen[k].value)
                         THEN {RapidJsonFrozenValue_equalTo(frozen[k].value,
                                                            frozen[k].origin, strict)}
                         ELSE BOOLEAN :
            ret' = [op |-> "equalTo", slot |-> k, strict |-> strict, result |-> result]
        /\ UNCHANGED <<doc, docGen, docLive, notFound, frozen, statics, threads>>

CallEqualToStrict == EqualToCall(TRUE)
CallEqualToLoose == EqualToCall(FALSE)

\* ------------------------------------------------- actions: the caller
RECURSIVE Reallocated(_, _)
\* the tree v held in allocator
Reallocated(v, allocator) ==
    CASE IsString(v) -> SetString(v.str, allocator)
      [] IsArray(v)  ->
            MakeArray([i \in 1..Len(v.elems) |-> Reallocated(v.elems[i], allocator)],
                      allocator)
      [] IsObject(v) ->
            MakeObject([i \in 1..Len(v.members) |->
                            [name  |-> Reallocated(v.members[i].name, allocator),
                             value |-> Reallocated(v.members[i].value, allocator)]],
                       allocator)
      [] OTHER -> v

\* the caller destroys the Document; the views it held go with it
DiscardDocument ==
    /\ docLive
    /\ docLive' = FALSE
    /\ doc' = SetNull
    /\ ret' = Idle
    /\ UNCHANGED <<docGen, notFound, frozen, statics, threads>>

\* the caller rewrites the Document in place (SetNull on the root); pointers
\* taken before the change no longer see what they saw
ChangeDocument ==
    /\ docLive
    /\ docGen < MaxChanges
    /\ docGen' = docGen + 1
    /\ doc' = SetNull
    /\ ret' = Idle
    /\ UNCHANGED <<docLive, notFound, frozen, statics, threads>>

\* ------------------------- actions: threads in the default constructors
DocumentUntouched == UNCHANGED <<doc, docGen, docLive, notFound, frozen, ret>>

\* a thread default-constructs a RapidJsonArray, a RapidJsonObject or a
\* RapidJsonValue, which calls the function holding the static
EnterDefaultConstructor ==
    \E t \in 1..MaxThreads, name \in Singletons :
        /\ threads[t].pc = "idle"
        /\ threads' = [threads EXCEPT ![t] = [NoCall EXCEPT !.pc = "test", !.fn = name]]
        /\ UNCHANGED statics
        /\ DocumentUntouched

TestGuard ==
    \E t \in 1..MaxThreads :
        /\ threads[t].pc = "test"
        /\ threads' = [threads EXCEPT ![t] =
                          IF GuardDone(statics[threads[t].fn])
                          THEN [@ EXCEPT !.pc = "return", !.how = "fast"]
                          ELSE [@ EXCEPT !.pc = "acquire"]]
        /\ UNCHANGED statics
        /\ DocumentUntouched

AcquireGuard ==
    \E t \in 1..MaxThreads :
        /\ threads[t].pc = "acquire"
        /\ LET r == GuardAcquire(statics[threads[t].fn])
           IN  /\ ~r.wait
               /\ statics' = [statics EXCEPT ![threads[t].fn] = r.static]
               /\ threads' = [threads EXCEPT ![t] =
                                 IF r.first
                                 THEN [@ EXCEPT !.pc = "construct", !.how = "first"]
                                 ELSE [@ EXCEPT !.pc = "return", !.how = "waited"]]
        /\ DocumentUntouched

ConstructStatic ==
    \E t \in 1..MaxThreads :
        /\ threads[t].pc = "construct"
        /\ statics' = [statics EXCEPT ![threads[t].fn] = RunInitialiser(threads[t].fn, @)]
        /\ threads' = [threads EXCEPT ![t].pc = "release"]
        /\ DocumentUntouched

ReleaseGuard ==
    \E t \in 1..MaxThreads :
        /\ threads[t].pc = "release"
        /\ statics' = [statics EXCEPT ![threads[t].fn] = GuardRelease(@)]
        /\ threads' = [threads EXCEPT ![t].pc = "return"]
        /\ DocumentUntouched

\* the function returns the static and the constructor binds it
ReturnStatic ==
    \E t \in 1..MaxThreads :
        /\ threads[t].pc = "return"
        /\ threads' = [threads EXCEPT ![t] =
                          [@ EXCEPT !.pc = "holds",
                                    !.value = [root |-> threads[t].fn, path |-> <<>>]]]
        /\ UNCHANGED statics
        /\ DocumentUntouched

\* the thread reads what it constructed: its size, and begin() against end()
UseDefault ==
    \E t \in 1..MaxThreads :
        /\ threads[t].pc = "holds"
        /\ LET view == [value |-> threads[t].value]
           IN  threads' = [threads EXCEPT ![t] =
                  IF threads[t].fn = emptyArray.root
                  THEN [@ EXCEPT !.pc = "used",
                                 !.size = RapidJsonArray_size(view),
                                 !.empty = equal(RapidJsonArray_begin(view),
                                                 RapidJsonArray_end(view))]
                  ELSE IF threads[t].fn = emptyObject.root
                  THEN [@ EXCEPT !.pc = "used",
                                 !.size = RapidJsonObject_size(view),
                                 !.empty = equal(RapidJsonObject_begin(view),
                                                 RapidJsonObject_end(view))]
                  ELSE [@ EXCEPT !.pc = "used",
                                 !.size = getObjectSize(threads[t].value, 5).result,
                                 !.empty = equal(RapidJsonObject_begin(getObjectOptional(threads[t].value).view),
                                                 RapidJsonObject_end(getObjectOptional(threads[t].value).view))]]
        /\ UNCHANGED statics
        /\ DocumentUntouched

\* the view or value goes out of scope
DropDefault ==
    \E t \in 1..MaxThreads :
        /\ threads[t].pc = "used"
        /\ threads' = [threads EXCEPT ![t] = NoCall]
        /\ UNCHANGED statics
        /\ DocumentUntouched

\* ------------------------------------------------------- specifications
ScalarCalls == CallGetBool \/ CallGetDouble \/ CallGetInteger \/ CallGetString

StructuralCalls ==
    \/ CallGetArrayOptional \/ CallGetObjectOptional
    \/ CallGetArraySize \/ CallGetObjectSize

ViewCalls ==
    \/ ConstructArray \/ ConstructArrayDefault
    \/ ConstructObject \/ ConstructObjectDefault
    \/ CallBegin \/ CallIncrement \/ CallDecrement \/ CallAdvance \/ CallDereference
    \/ CallFind

FrozenCalls ==
    \/ ConstructFrozenCString \/ ConstructFrozenString
    \/ CallFreeze \/ CallClone \/ CallEqualToStrict \/ CallEqualToLoose \/ DestroyFrozen

CallerSteps == DiscardDocument \/ ChangeDocument

\* the adapter's read-only calls on a Document
NextAdapter == CallKinds \/ ScalarCalls \/ StructuralCalls \/ ViewCalls
SpecAdapter == Init /\ [][NextAdapter]_vars

\* frozen values, compared strictly, and the lifetime of what they were
\* frozen from.  None of these calls looks a member up, so one rapidjson is
\* enough; the arrays of several elements are those of 1 and 1.5.
InitFrozen ==
    /\ Init
    /\ doc \in WideArrays(DocAllocator(0)) \ Nested(1, DocAllocator(0))
          => \A i \in 1..Len(doc.elems) : IsInt(doc.elems[i]) \/ IsDouble(doc.elems[i])
    /\ notFound = "end"
NextFrozen ==
    \/ ConstructFrozenCString \/ ConstructFrozenString
    \/ CallFreeze \/ CallClone \/ CallEqualToStrict \/ DestroyFrozen \/ CallerSteps
SpecFrozen == InitFrozen /\ [][NextFrozen]_vars

\* threads using the default constructors for the first time in the process
InitSingleton ==
    /\ doc = SetNull
    /\ docGen = 0
    /\ docLive = TRUE
    /\ notFound = "end"
    /\ frozen = [k \in 1..MaxFrozen |-> NoFrozen]
    /\ ret = Idle
    /\ statics = [name \in Singletons |-> Unconstructed]
    /\ threads = [t \in 1..MaxThreads |-> NoCall]
NextSingleton ==
    \/ EnterDefaultConstructor \/ TestGuard \/ AcquireGuard \/ ConstructStatic
    \/ ReleaseGuard \/ ReturnStatic \/ UseDefault \/ DropDefault
SpecSingleton == InitSingleton /\ [][NextSingleton]_vars

\* the empty array, the empty object, and the array and the object of one
\* string
CoreDocuments(allocator) ==
    {d \in Nested(1, allocator) \ Elems(allocator) :
        \A i \in 1..Len(Children(d)) : IsString(Children(d)[i])}

\* every call and every step of the caller, on those Documents, with a
\* rapidjson whose FindMember returns a null pointer for a missing member
InitCore ==
    /\ Init
    /\ doc \in CoreDocuments(DocAllocator(0))
    /\ notFound = "null"
Next ==
    CallKinds \/ ScalarCalls \/ StructuralCalls \/ ViewCalls \/ FrozenCalls \/ CallerSteps
Spec == InitCore /\ [][Next]_vars

\* ------------------------------------------------------------------ claims
LiveSlots == {k \in 1..MaxFrozen : frozen[k].state = "live"}

\* C1: round trip.  Freezing a value yields a frozen value, and that frozen
\* value, and every clone of it, compares equal to the value it was frozen
\* from with strict = true.
C1_RoundTrip ==
    /\ ret.op = "freeze" => ~ret.threw
    /\ ret.op = "clone" => ~ret.threw
    /\ \A k \in LiveSlots :
          RapidJsonFrozenValue_equalTo(frozen[k].value, frozen[k].origin, TRUE)

\* a clone of a frozen object that holds an array holding an unsigned
\* 64-bit number beyond the signed range
C1_Witness ==
    /\ ret.op = "clone" /\ ~ret.threw
    /\ frozen[ret.slot].state = "live"
    /\ frozen[ret.slot].from # 0
    /\ IsObject(frozen[ret.slot].origin)
    /\ Len(frozen[ret.slot].origin.members) = 1
    /\ frozen[ret.slot].origin.members[1].value =
          MakeArray(<<SetUint64(<<65535, 65535, 65535, 65535>>)>>, DocAllocator(0))

\* C2: independence.  Every string, array and object of a frozen value lives
\* in the frozen value's own allocator; its content stays the content of
\* what it was frozen from whatever happens to the Document or to the frozen
\* value it was cloned from; and equalTo against a live equivalent with
\* strict = true answers true.
C2_Independent ==
    /\ \A k \in LiveSlots :
          /\ AllocatorsOf(frozen[k].value) \subseteq {FrozenAllocator(k)}
          /\ frozen[k].value = Reallocated(frozen[k].origin, FrozenAllocator(k))
    /\ (ret.op = "equalTo" /\ ret.strict) => ret.result

\* the Document is gone, the frozen value this one was cloned from is
\* deleted, and the clone of a non-empty array of a string still compares
\* equal
C2_Witness ==
    /\ ~docLive
    /\ ret.op = "equalTo" /\ ret.strict /\ ret.result
    /\ frozen[ret.slot].from # 0
    /\ frozen[frozen[ret.slot].from].state = "destroyed"
    /\ IsArray(frozen[ret.slot].origin)
    /\ Len(frozen[ret.slot].origin.elems) > 0
    /\ IsString(frozen[ret.slot].origin.elems[1])

\* C9: every number of the frozen copy answers the five representation
\* tests as the source number does and holds the same value, so isInteger,
\* isDouble, getInteger and getDouble agree on copy and source.
C9_NumericSubtype ==
    \A k \in LiveSlots : \A p \in PathsOf(frozen[k].origin) :
        LET source == NodeAt(frozen[k].origin, p)
            copied == NodeAt(frozen[k].value, p)
        IN  IsNumber(source) =>
              /\ IsNumber(copied)
              /\ IsInt(copied) <=> IsInt(source)
              /\ IsUint(copied) <=> IsUint(source)
              /\ IsInt64(copied) <=> IsInt64(source)
              /\ IsUint64(copied) <=> IsUint64(source)
              /\ IsDouble(copied) <=> IsDouble(source)
              /\ isInteger(copied) <=> isInteger(source)
              /\ isDouble(copied) <=> isDouble(source)
              /\ \A z \in IntegerOuts : getInteger(copied, z) = getInteger(source, z)
              /\ \A z \in DoubleOuts : getDouble(copied, z) = getDouble(source, z)
              /\ isInteger(source) => StoredNumber(copied) = StoredNumber(source)

\* a frozen array whose element is an unsigned 64-bit number that fits no
\* other representation, and is still one in the copy
C9_Witness ==
    \E k \in LiveSlots :
        /\ IsArray(frozen[k].origin)
        /\ Len(frozen[k].origin.elems) > 0
        /\ IsUint64(frozen[k].origin.elems[1]) /\ ~IsInt64(frozen[k].origin.elems[1])
        /\ IsUint64(frozen[k].value.elems[1]) /\ ~IsInt64(frozen[k].value.elems[1])

\* C3: getInteger on an integer whose stored number lies in
\* -2^63 .. 2^63-1 succeeds and its signed 64-bit result is that number,
\* whichever of the four native encodings holds it.
C3_GetIntegerExact ==
    (/\ ret.op = "getInteger"
     /\ ret.node.type = "number" /\ "Double" \notin ret.node.flags
     /\ InInt64Range(StoredNumber(ret.node)))
        => (ret.ok /\ Signed64(ret.result) = StoredNumber(ret.node))

\* getInteger on 9223372036854775807 returned 9223372036854775807
C3_Witness ==
    /\ ret.op = "getInteger"
    /\ ret.node = SetUint64(<<32767, 65535, 65535, 65535>>)
    /\ ret.before = <<0, 0, 0, 7>>
    /\ ret.ok
    /\ ret.result = <<32767, 65535, 65535, 65535>>

GetterCalls == {"getBool", "getDouble", "getInteger", "getString"}

\* the kind a getter extracts
KindOf(node) ==
    CASE node.type \in {"true", "false"} -> "getBool"
      [] node.type = "string" -> "getString"
      [] node.type = "number" /\ "Double" \in node.flags -> "getDouble"
      [] node.type = "number" /\ "Double" \notin node.flags -> "getInteger"
      [] OTHER -> "none"

\* C4: a scalar getter never throws; it returns true exactly when the value
\* is of the getter's kind, and otherwise returns false and leaves the
\* caller's output variable as it was.
C4_GettersReportFailure ==
    ret.op \in GetterCalls =>
        /\ ~ret.threw
        /\ ret.ok <=> KindOf(ret.node) = ret.op
        /\ ~ret.ok => ret.result = ret.before

\* getInteger on 1.5 returned false and left 7 in the caller's variable
C4_Witness ==
    /\ ret.op = "getInteger"
    /\ ret.node = SetDouble(3)
    /\ ~ret.ok
    /\ ret.before = <<0, 0, 0, 7>>
    /\ ret.result = <<0, 0, 0, 7>>

\* C5: constructing a RapidJsonArray from a value that is not an array
\* throws and yields no view, constructing it from an array yields a view of
\* that array; likewise RapidJsonObject and objects.
C5_ViewConstruction ==
    /\ ret.op = "RapidJsonArray" =>
          /\ ret.threw <=> ret.node.type # "array"
          /\ ret.view.value = IF ret.node.type = "array" THEN ret.value ELSE NullRef
    /\ ret.op = "RapidJsonObject" =>
          /\ ret.threw <=> ret.node.type # "object"
          /\ ret.view.value = IF ret.node.type = "object" THEN ret.value ELSE NullRef

\* RapidJsonArray constructed from an object threw
C5_Witness ==
    /\ ret.op = "RapidJsonArray"
    /\ ret.node.type = "object"
    /\ ret.threw
    /\ ret.view.value = NullRef

\* the indices of the members of the viewed object named name
MembersNamed(view, name) ==
    {i \in 1..MemberCount(view.value) : Deref(view.value).members[i].name.str = name}

\* C6: find(n) on an object with a member named n is an iterator that
\* dereferences to n and the value of a member named n; on an object with
\* no member named n it equals the object's end(); on an empty object it is
\* that object's end() and the end() of no non-empty object.
C6_FindCorrect ==
    ret.op = "find" =>
        IF MembersNamed(ret.view, ret.name) # {}
        THEN /\ ret.itr.base = ret.view.value
             /\ ret.itr.idx + 1 \in MembersNamed(ret.view, ret.name)
             /\ ObjectMemberIterator_dereference(ret.itr).name = ret.name
        ELSE /\ equal(ret.itr, RapidJsonObject_end(ret.view))
             /\ MemberCount(ret.view.value) = 0 =>
                   \A other \in Refs :
                       (IsObject(Deref(other)) /\ MemberCount(other) > 0)
                           => ~equal(ret.itr, MemberEnd(other))

\* the part of C6 the code keeps: the same, for names without a NUL
C6_FindCorrectForCStrings ==
    (ret.op = "find" /\ c_str(ret.name) = ret.name) => C6_FindCorrect

\* C7: an iterator reached from begin() in n increments equals end()
\* exactly when n = size(), for array and object views, default-constructed
\* ones included.
C7_IterationMatchesSize ==
    HasIterator =>
        /\ ret.steps \in 0..ViewSize(ret.kind, ret.view)
        /\ equal(ret.itr, ViewEnd(ret.kind, ret.view))
              <=> ret.steps = ViewSize(ret.kind, ret.view)

\* two increments from begin() of an object of two members reached end()
C7_Witness ==
    /\ ret.op = "increment"
    /\ ret.kind = "object"
    /\ ret.steps = 2
    /\ RapidJsonObject_size(ret.view) = 2
    /\ equal(ret.itr, RapidJsonObject_end(ret.view))

\* C10: no call of the adapter changes the Document: a step that is not the
\* caller discarding or changing the Document leaves every node of it as it
\* was.
C10_DocumentUnchanged ==
    [][(docLive' = docLive /\ docGen' = docGen) => doc' = doc]_vars

\* a value of the Document was frozen and the Document still holds it
C10_Witness ==
    /\ ret.op = "freeze" /\ ~ret.threw
    /\ ret.value.root = "doc" /\ ret.value.path # <<>>
    /\ docLive /\ docGen = 0
    /\ IsObject(doc)
    /\ NodeAt(doc, ret.value.path) = frozen[ret.slot].origin
    /\ IsString(frozen[ret.slot].origin)

\* C13: whenever getInteger returns true, its signed 64-bit result is the
\* integer the value stores, whichever native encoding holds it, unsigned
\* 64-bit numbers above 9223372036854775807 included.
C13_GetIntegerNeverWrong ==
    (ret.op = "getInteger" /\ ret.ok)
        => Signed64(ret.result) = StoredNumber(ret.node)

\* the part of C13 the code keeps: the result has the bits of the stored
\* number, so it is that number modulo 2^64
C13_GetIntegerSameBits ==
    (ret.op = "getInteger" /\ ret.ok) => ret.result = StoredNumber(ret.node).bits

\* C14: an iterator returned by find(n) that is not end() dereferences to a
\* member whose name is n over its full length, for names holding NUL too.
C14_FindExactName ==
    (ret.op = "find" /\ ~equal(ret.itr, RapidJsonObject_end(ret.view)))
        => ObjectMemberIterator_dereference(ret.itr).name = ret.name

\* the part of C14 the code keeps: the member found has the name the query
\* has up to its first NUL
C14_FindCStringName ==
    (ret.op = "find" /\ ~equal(ret.itr, RapidJsonObject_end(ret.view)))
        => ObjectMemberIterator_dereference(ret.itr).name = c_str(ret.name)

\* C12: getArrayOptional never throws and holds a view, of the value it was
\* called on, exactly when the value is an array; getArraySize returns true
\* exactly when the value is an array, then with size() of that view as its
\* result, and otherwise leaves the caller's variable as it was; likewise
\* getObjectOptional and getObjectSize for objects.
C12_StructuralExtraction ==
    /\ ret.op = "getArrayOptional" =>
          /\ ~ret.threw
          /\ ret.present <=> isArray(ret.node)
          /\ ret.present => ret.optional = [value |-> RapidJsonArray(ret.value).value]
    /\ ret.op = "getObjectOptional" =>
          /\ ~ret.threw
          /\ ret.present <=> isObject(ret.node)
          /\ ret.present => ret.optional = [value |-> RapidJsonObject(ret.value).value]
    /\ ret.op = "getArraySize" =>
          /\ ~ret.threw
          /\ ret.ok <=> isArray(ret.node)
          /\ ret.ok => ret.result = RapidJsonArray_size([value |-> RapidJsonArray(ret.value).value])
          /\ ~ret.ok => ret.result = ret.before
    /\ ret.op = "getObjectSize" =>
          /\ ~ret.threw
          /\ ret.ok <=> isObject(ret.node)
          /\ ret.ok => ret.result = RapidJsonObject_size([value |-> RapidJsonObject(ret.value).value])
          /\ ~ret.ok => ret.result = ret.before

\* getObjectSize on an array of two elements returned false and left 5 in
\* the caller's variable
C12_Witness ==
    /\ ret.op = "getObjectSize"
    /\ IsArray(ret.node) /\ Len(ret.node.elems) = 2
    /\ ~ret.ok
    /\ ret.before = 5 /\ ret.result = 5

\* C15: of isNull, isBool, isNumber, isString, isArray and isObject exactly
\* one is true of every value of the seven rapidjson kinds; isNumber is true
\* exactly when exactly one of isInteger and isDouble is, the two are never
\* both true, and hasStrictTypes is true.
C15_KindsPartition ==
    ret.op = "kinds" =>
        /\ Cardinality({p \in KindPredicates : ret.is[p]}) = 1
        /\ ret.is.isNumber <=> (ret.is.isInteger # ret.is.isDouble)
        /\ ~(ret.is.isInteger /\ ret.is.isDouble)
        /\ ret.strict

\* the predicates were called on 1.5: a number, a double, not an integer
C15_Witness ==
    /\ ret.op = "kinds"
    /\ ret.node = SetDouble(3)
    /\ ret.is.isNumber /\ ret.is.isDouble /\ ~ret.is.isInteger

\* C11: under every interleaving of threads in the default constructors
\* each static empty value is constructed at most once, and exactly once by
\* the time any thread has it; every thread that default-constructed a view
\* or value holds the one static of its class; and a constructed static is,
\* and is read as, empty: size 0 and begin() equal to end().
C11_SingletonsOnce ==
    /\ \A name \in Singletons :
          /\ statics[name].inits <= 1
          /\ statics[name].guard = "done" => statics[name] = Constructed(name)
    /\ \A t \in 1..MaxThreads :
          threads[t].pc \in {"holds", "used"} =>
              /\ statics[threads[t].fn] = Constructed(threads[t].fn)
              /\ threads[t].value = [root |-> threads[t].fn, path |-> <<>>]
              /\ threads[t].pc = "used" => (threads[t].size = 0 /\ threads[t].empty)

\* two threads raced for the first RapidJsonArray(): one constructed the
\* static, the other waited for it, and both hold the same empty array
C11_Witness ==
    \E t, u \in 1..MaxThreads :
        /\ threads[t].fn = emptyArray.root /\ threads[u].fn = emptyArray.root
        /\ threads[t].how = "first" /\ threads[t].pc = "used"
        /\ threads[u].how = "waited" /\ threads[u].pc = "used"
        /\ threads[t].value = threads[u].value
        /\ threads[u].size = 0 /\ threads[u].empty
        /\ statics[emptyArray.root].inits = 1

====
